---- MODULE Spec2Model ----
(***************************************************************************)
(* A model of quip_sync.py: the one-way reconciler that mirrors a local    *)
(* tree of markdown files onto a remote folder of Quip documents.          *)
(*                                                                         *)
(* Spec      : sync_directory as a sequential process (load, clear or      *)
(*             delete, resolve folders, sync files, save), run repeatedly, *)
(*             with local edits and out-of-band remote deletions between   *)
(*             runs and with remote calls that may fail.                   *)
(* SpecRetry : retry_api_call alone, one invocation of the wrapped         *)
(*             operation per step.                                         *)
(* SpecMedia : process_images_after_upload alone, applied to any small     *)
(*             document, set of image files and set of failing calls.      *)
(* SpecResolve : the target resolution of sync_file alone, applied to any  *)
(*             small folder, cached identifier and set of failing calls.   *)
(*                                                                         *)
(* In Spec a remote call is retry_api_call(op, ...) as a whole: it either  *)
(* returns the result of op or raises.  The set F of an action holds the   *)
(* call sites that raise during that one handler invocation.               *)
(***************************************************************************)
EXTENDS Integers, Sequences, FiniteSets, TLC

\* ------------------------------------------------------------------ bounds
MaxContent == 2      \* distinct file contents 1..MaxContent
MaxRuns == 2         \* runs of sync_directory in one behaviour
MaxFail == 1         \* failing call sites within one handler invocation
MaxObjs == 5         \* remote objects (folders and documents) ever created
MaxEnv == 1          \* changes made by the environment between two runs
MaxRetriesArg == 4   \* largest max_retries argument tried in SpecRetry
MaxRate == 2         \* largest rate_limit argument (in half seconds)
MaxChunks == 3       \* chunks of a document handed to the media pass (SpecMedia)
MaxRefs == 2         \* distinct image references in such a document
MaxKids == 3         \* children of the folder searched for a title (SpecResolve)

\* ------------------------------------------------------- the local tree
\* The managed files, by path relative to local_path.
Files == {"x.md", "a/b/y.md"}

\* os.path.relpath(os.path.dirname(file_path), local_path).split(os.sep);
\* <<>> stands for '.'
DirOf(f) ==
    CASE f = "x.md" -> <<>>
      [] f = "a/b/y.md" -> <<"a", "b">>

\* os.path.splitext(os.path.basename(file_path))[0]
NameWithoutExt(f) ==
    CASE f = "x.md" -> "x"
      [] f = "a/b/y.md" -> "y"

\* sorted(files_by_dir.keys()) over every directory that can hold a file
SortedDirs == << <<>>, <<"a", "b">> >>

\* list(cache.keys()) / os.walk enumeration order of the files
FileOrder == <<"x.md", "a/b/y.md">>

\* Contents are numbered; two properties of a content matter to the code:
\* whether its markup has a top-level heading and whether it has an image
\* reference ![alt](ref).
HasH1(c) == c % 2 = 1
HasImg(c) == c % 3 = 1

\* hashlib.md5(f.read()).hexdigest(): distinct contents, distinct digests;
\* 0 stands for None.
get_file_hash(c) == 100 + c

\* The body chunk a content becomes: the image reference is replaced by the
\* placeholder '####image path: (ref)' (ph: the reference, 0 if the content
\* has none; the contents of the tree all refer to image 1), the rest of the
\* text is kept.  blob records an image element put at the placeholder by the
\* media pass.
preprocess_markdown_for_images(c) ==
    [text |-> c, h1 |-> HasH1(c), ph |-> IF HasImg(c) THEN 1 ELSE 0, blob |-> FALSE]

\* ------------------------------------------------------------ the cache
NoEntry == [kind |-> "none", hash |-> 0, doc_id |-> 0, sync_success |-> FALSE]
StrEntry(h) == [kind |-> "str", hash |-> h, doc_id |-> 0, sync_success |-> FALSE]
DictEntry(h, d, s) == [kind |-> "dict", hash |-> h, doc_id |-> d, sync_success |-> s]
EmptyCache == [f \in Files |-> NoEntry]

\* ------------------------------------------------------ the remote store
\* A remote object; its identifier is its index in objs, 0 is the root
\* folder.  A folder listing returns the live children in creation order.
Folder(title, parent) ==
    [kind |-> "folder", title |-> title, parent |-> parent, body |-> <<>>, alive |-> TRUE]
Thread(title, parent, body) ==
    [kind |-> "thread", title |-> title, parent |-> parent, body |-> body, alive |-> TRUE]

\* client.get_folder(g)['children']
Children(o, g) ==
    SelectSeq([i \in 1..Len(o) |-> i], LAMBDA i : o[i].parent = g /\ o[i].alive)

Small(S) == {F \in SUBSET S : Cardinality(F) <= MaxFail}

\* The call sites of one handler invocation that may raise.
IsFolder(o, g) == g = 0 \/ o[g].kind = "folder"
IsThread(o, t) == o[t].kind = "thread" /\ o[t].alive
FolderSites(o) ==
    {<<"flist", g>> : g \in {k \in 0..Len(o) : IsFolder(o, k)}}
        \cup {<<"ftitle", g>> : g \in {k \in 1..Len(o) : IsFolder(o, k)}}
        \cup {<<"mkdir", g>> : g \in {k \in 0..Len(o) : IsFolder(o, k)}}
FileSites(o, g) ==
    {<<s, 0>> : s \in {"verify", "list", "fetch", "clear", "prepend", "create",
                       "media"}}
        \cup {<<s, k>> : s \in {"blob", "img"}, k \in 1..MaxRuns}
        \cup {<<"title", t>> : t \in {k \in 1..Len(o) : IsThread(o, k) /\ o[k].parent = g}}
ClearSites(o) ==
    {<<"list", g>> : g \in {k \in 0..Len(o) : IsFolder(o, k)}}
        \cup {<<"getf", g>> : g \in {k \in 1..Len(o) : IsFolder(o, k)}}
        \cup {<<s, t>> : s \in {"get", "del"}, t \in {k \in 1..Len(o) : IsThread(o, k)}}

\* A variant of the child scan that never recognises an existing subfolder.
ScanFolders_NoMatch(o, kids, title, F) == [id |-> 0, raised |-> FALSE]

\* ------------------------------------------------ create_folder_structure
\* The loop over folder_list['children'] (lines 90-98): the first subfolder
\* whose title is the segment; fetching a child's title may raise.
RECURSIVE ScanFolders(_, _, _, _)
ScanFolders(o, kids, title, F) ==
    IF kids = <<>> THEN [id |-> 0, raised |-> FALSE]
    ELSE LET k == Head(kids) IN
         IF o[k].kind # "folder" THEN ScanFolders(o, Tail(kids), title, F)
         ELSE IF <<"ftitle", k>> \in F THEN [id |-> 0, raised |-> TRUE]
         ELSE IF o[k].title = title THEN [id |-> k, raised |-> FALSE]
         ELSE ScanFolders(o, Tail(kids), title, F)

RECURSIVE create_folder_structure(_, _, _, _)
create_folder_structure(o, folder_path, parent_id, F) ==
    IF folder_path = <<>>
    THEN [objs |-> o, id |-> parent_id, raised |-> FALSE, muts |-> {}]
    ELSE IF <<"flist", parent_id>> \in F
    THEN [objs |-> o, id |-> 0, raised |-> TRUE, muts |-> {}]
    ELSE LET folder == Head(folder_path)
             scan == ScanFolders(o, Children(o, parent_id), folder, F)
         IN IF scan.raised
            THEN [objs |-> o, id |-> 0, raised |-> TRUE, muts |-> {}]
            ELSE IF scan.id # 0
            THEN create_folder_structure(o, Tail(folder_path), scan.id, F)
            ELSE IF <<"mkdir", parent_id>> \in F
            THEN [objs |-> o, id |-> 0, raised |-> TRUE, muts |-> {"new_folder"}]
            ELSE LET rest == create_folder_structure(
                                 Append(o, Folder(folder, parent_id)),
                                 Tail(folder_path), Len(o) + 1, F)
                 IN [rest EXCEPT !.muts = @ \cup {"new_folder"}]

\* ------------------------------------------- process_images_after_upload
\* re.findall(r'image path:\s*\(([^)]+)\)', html): the references of the
\* placeholders of the markup, in document order.
RECURSIVE ImageMatches(_)
ImageMatches(body) ==
    IF body = <<>> THEN <<>>
    ELSE IF Head(body).ph # 0 THEN <<Head(body).ph>> \o ImageMatches(Tail(body))
    ELSE ImageMatches(Tail(body))

\* The location argument of the image edit (line 228).
ImageLocation == 7

\* edit_document(content='<img src=/blob/d/b>',
\*               document_range='image path: (r)', location=location).
\* The range is the section under the first heading of that text.  Quip
\* numbers the range operations 6 AFTER_, 7 BEFORE_, 8 REPLACE_ and
\* 9 DELETE_DOCUMENT_RANGE (the code names 9 itself at line 344): under 7
\* the image goes in front of the placeholder, which stays; under 8 it would
\* take the placeholder's place.
EditRange(body, r, location) ==
    LET P == {i \in 1..Len(body) : body[i].ph = r}
        i == CHOOSE k \in P : \A m \in P : k <= m
    IN IF location = 8 THEN [body EXCEPT ![i].ph = 0, ![i].blob = TRUE]
       ELSE IF location = 7 THEN [body EXCEPT ![i].blob = TRUE]
       ELSE body

\* A variant of one iteration's outcome: a missing file, a failed upload or
\* a failed edit ends the loop and makes the pass fail.
AfterImage_Stop(out, ok) == [go |-> out = "added", ok |-> ok /\ out = "added"]

\* What one iteration of the loop leaves to the rest of the pass (lines
\* 211-232): 'continue' after a missing file or a failed upload, the except
\* clause around the edit; the result is not touched.
AfterImage(out, ok) == [go |-> TRUE, ok |-> ok]

\* lines 206-231, one placeholder: the image file is looked up, uploaded and
\* put into the document.  out: how far this went.
ImageStep(body, image_path, k, F, exists) ==
    IF image_path \notin exists
    THEN [body |-> body, out |-> "missing", muts |-> {}]
    ELSE IF <<"blob", k>> \in F
    THEN [body |-> body, out |-> "upload_failed", muts |-> {"put_blob"}]
    ELSE IF <<"img", k>> \in F
    THEN [body |-> body, out |-> "edit_failed", muts |-> {"put_blob", "edit_document"}]
    ELSE [body |-> EditRange(body, image_path, ImageLocation),
          out |-> "added", muts |-> {"put_blob", "edit_document"}]

\* The pass from one placeholder on: what the iteration did (it), whether
\* and how the loop went on (nx), what the later iterations did (rest).
ImageJoin(image_path, it, nx, rest) ==
    [body |-> rest.body, ok |-> nx.ok /\ rest.ok,
     log |-> <<[ref |-> image_path, out |-> it.out]>> \o rest.log,
     failed |-> it.out \in {"upload_failed", "edit_failed"} \/ rest.failed,
     muts |-> it.muts \cup rest.muts]

\* line 235: the loop is over
ImageDone(body) ==
    [body |-> body, ok |-> TRUE, log |-> <<>>, failed |-> FALSE, muts |-> {}]

\* The loop of lines 204-233 from the k-th match on.  exists: the references
\* whose file is there.  log: what happened at each placeholder reached.
RECURSIVE ImageLoop(_, _, _, _, _)
RECURSIVE ImageRest(_, _, _, _, _, _)
ImageRest(it, nx, image_matches, k, F, exists) ==
    ImageJoin(image_matches[k], it, nx,
              IF nx.go THEN ImageLoop(it.body, image_matches, k + 1, F, exists)
              ELSE ImageDone(it.body))

ImageNext(it, image_matches, k, F, exists) ==
    ImageRest(it, AfterImage(it.out, TRUE), image_matches, k, F, exists)

ImageLoop(body, image_matches, k, F, exists) ==
    IF k > Len(image_matches) THEN ImageDone(body)
    ELSE ImageNext(ImageStep(body, image_matches[k], k, F, exists),
                   image_matches, k, F, exists)

\* lines 235-238: what the pass returns, and the document it leaves
MediaResult(o, d, lp) ==
    [objs |-> [o EXCEPT ![d].body = lp.body], ok |-> lp.ok, log |-> lp.log,
     failed |-> lp.failed, muts |-> lp.muts]

\* The media pass on document d (0: no identifier given).
process_images_after_upload(o, d, F, exists) ==
    IF d = 0
    THEN [objs |-> o, ok |-> FALSE, log |-> <<>>, failed |-> FALSE, muts |-> {}]
    ELSE IF <<"media", 0>> \in F
    THEN [objs |-> o, ok |-> FALSE, log |-> <<>>, failed |-> TRUE, muts |-> {}]
    ELSE MediaResult(o, d, ImageLoop(o[d].body, ImageMatches(o[d].body), 1, F, exists))

\* ---------------------------------------------------------------- sync_file
\* A variant of the title search that keeps the last match of the listing.
\* The title search of lines 291-302: the first document child whose title
\* is the file's base name; a child that cannot be fetched is skipped.
RECURSIVE TitleScan_Last(_, _, _, _)
TitleScan_Last(o, kids, title, F) ==
    IF kids = <<>> THEN [id |-> 0, failed |-> FALSE]
    ELSE LET k == kids[Len(kids)]
             front == SubSeq(kids, 1, Len(kids) - 1)
         IN IF o[k].kind # "thread" THEN TitleScan_Last(o, front, title, F)
            ELSE IF <<"title", k>> \in F
            THEN [TitleScan_Last(o, front, title, F) EXCEPT !.failed = TRUE]
            ELSE IF o[k].title = title THEN [id |-> k, failed |-> FALSE]
            ELSE TitleScan_Last(o, front, title, F)

RECURSIVE TitleScan(_, _, _, _)
TitleScan(o, kids, title, F) ==
    IF kids = <<>> THEN [id |-> 0, failed |-> FALSE]
    ELSE LET k == Head(kids) IN
         IF o[k].kind # "thread" THEN TitleScan(o, Tail(kids), title, F)
         ELSE IF <<"title", k>> \in F
         THEN [TitleScan(o, Tail(kids), title, F) EXCEPT !.failed = TRUE]
         ELSE IF o[k].title = title THEN [id |-> k, failed |-> FALSE]
         ELSE TitleScan(o, Tail(kids), title, F)

\* edit_document(document_range=first_heading, location=9): the section
\* under the first top-level heading, up to the next top-level heading, is
\* deleted; what precedes the heading and what follows the section stays.
DeleteRange(body) ==
    LET H == {i \in 1..Len(body) : body[i].h1}
        i == CHOOSE k \in H : \A m \in H : k <= m
        j == IF \E k \in H : k > i
             THEN CHOOSE k \in H : k > i /\ \A m \in H : m > i => k <= m
             ELSE Len(body) + 1
    IN SubSeq(body, 1, i - 1) \o SubSeq(body, j, Len(body))

\* A variant that trusts the cached identifier without looking at the fetch.
VerifyCached_Trust(o, cached_doc_id, raised) == cached_doc_id

\* lines 276-287: the cached identifier is kept only if fetching it returns
\* a document; raised: the fetch raised
VerifyCached(o, cached_doc_id, raised) ==
    IF cached_doc_id # 0 /\ (raised \/ ~o[cached_doc_id].alive) THEN 0 ELSE cached_doc_id

\* A variant of the update decision that skips on an equal fingerprint and a
\* recorded success although no document was resolved.
NeedUpdate_NoDoc(file_hash, cached_hash, doc_id, sync_success) ==
    ~(file_hash = cached_hash /\ sync_success)

\* Variants of the update decision: always update; skip on an equal
\* fingerprint whatever the recorded outcome of the last attempt.
NeedUpdate_Always(file_hash, cached_hash, doc_id, sync_success) == TRUE
NeedUpdate_IgnoreStatus(file_hash, cached_hash, doc_id, sync_success) ==
    ~(file_hash = cached_hash /\ doc_id # 0)

\* lines 307-314
NeedUpdate(file_hash, cached_hash, doc_id, sync_success) ==
    ~(file_hash = cached_hash /\ doc_id # 0 /\ sync_success)

\* lines 357-365 and 383-390: the outcome of the attempt once the content
\* call has returned and the media pass (mp) has run
ContentDone(mp, doc_id, failed, muts) ==
    [objs |-> mp.objs, doc_id |-> doc_id, ok |-> mp.ok, sent |-> TRUE,
     failed |-> failed \/ mp.failed, muts |-> muts \cup mp.muts,
     out |-> IF mp.ok THEN "ok" ELSE "media_failed", log |-> mp.log]

\* lines 328-356: the clearing edit and the prepend on the fetched markup
UpdateBody(o, doc_id, html, hasH1, content, F, exists) ==
    IF <<"prepend", 0>> \in F
    THEN [objs |-> [o EXCEPT ![doc_id].body =
                       IF hasH1 /\ <<"clear", 0>> \notin F THEN DeleteRange(html) ELSE html],
          doc_id |-> doc_id, ok |-> FALSE, sent |-> TRUE, failed |-> TRUE,
          muts |-> {"edit_document"}, out |-> "content_failed", log |-> <<>>]
    ELSE ContentDone(
             process_images_after_upload(
                 [o EXCEPT ![doc_id].body =
                     <<content>> \o (IF hasH1 /\ <<"clear", 0>> \notin F
                                     THEN DeleteRange(html) ELSE html)],
                 doc_id, F, exists),
             doc_id, hasH1 /\ <<"clear", 0>> \in F, {"edit_document"})

\* lines 321-369: update of the existing document doc_id.  out: "ok", or
\* the step that made the attempt fail.
UpdateDocument(o, doc_id, content, F, exists) ==
    IF <<"fetch", 0>> \in F
    THEN [objs |-> o, doc_id |-> doc_id, ok |-> FALSE, sent |-> FALSE,
          failed |-> TRUE, muts |-> {}, out |-> "fetch_failed", log |-> <<>>]
    ELSE UpdateBody(o, doc_id, o[doc_id].body,
                    \E i \in 1..Len(o[doc_id].body) : o[doc_id].body[i].h1,
                    content, F, exists)

\* lines 370-395: creation of a document under quip_folder_id
CreateDocument(o, title, quip_folder_id, content, F, exists) ==
    IF <<"create", 0>> \in F
    THEN [objs |-> o, doc_id |-> 0, ok |-> FALSE, sent |-> TRUE,
          failed |-> TRUE, muts |-> {"new_document"}, out |-> "content_failed",
          log |-> <<>>]
    ELSE ContentDone(
             process_images_after_upload(
                 Append(o, Thread(title, quip_folder_id, <<content>>)),
                 Len(o) + 1, F, exists),
             Len(o) + 1, FALSE, {"new_document"})

\* lines 273-302: the document sync_file works on (0: none).  raised: the
\* listing of the folder raised, which leaves sync_file.
ResolveTarget(o, cached_doc_id, title, quip_folder_id, F) ==
    LET verifyRaised == cached_doc_id # 0 /\ <<"verify", 0>> \in F
        doc1 == VerifyCached(o, cached_doc_id, verifyRaised)
        scan == TitleScan(o, Children(o, quip_folder_id), title, F)
    IN IF doc1 # 0 THEN [doc_id |-> doc1, raised |-> FALSE, failed |-> FALSE]
       ELSE IF <<"list", 0>> \in F THEN [doc_id |-> 0, raised |-> TRUE, failed |-> TRUE]
       ELSE [doc_id |-> scan.id, raised |-> FALSE,
             failed |-> (verifyRaised /\ o[cached_doc_id].alive) \/ scan.failed]

\* A variant of the early return of an unreadable file that drops the entry.
UnreadableEntry_Drop(cached_info) == NoEntry

\* lines 250-251 and 269-271: the cache is returned as it is
UnreadableEntry(cached_info) == cached_info

\* A variant of the cache write that records success whatever happened.
CacheEntry_AlwaysOk(file_hash, doc_id, sync_success) == DictEntry(file_hash, doc_id, TRUE)

\* lines 401-406
CacheEntry(file_hash, doc_id, sync_success) == DictEntry(file_hash, doc_id, sync_success)

\* lines 400-407: the entry written and what sync_file did, after the
\* attempt r on the resolved target tg
Attempted(file_hash, tg, r) ==
    [raise |-> "", objs |-> r.objs,
     entry |-> CacheEntry(file_hash, r.doc_id, r.ok),
     act |-> IF tg.doc_id # 0 THEN "update" ELSE "create",
     sent |-> r.sent, failed |-> tg.failed \/ r.failed, muts |-> r.muts,
     out |-> r.out, calls |-> TRUE, log |-> r.log]

\* lines 304-407: sync_file once the target tg is resolved
Resolved(o, cached_info, f, c, quip_folder_id, F, exists, tg) ==
    IF tg.raised
    THEN [raise |-> "HTTPError", objs |-> o, entry |-> cached_info,
          act |-> "raised", sent |-> FALSE, failed |-> TRUE, muts |-> {},
          out |-> "raised", calls |-> TRUE, log |-> <<>>]
    ELSE IF cached_info.kind = "str"
    THEN [raise |-> "AttributeError", objs |-> o, entry |-> cached_info,
          act |-> "raised", sent |-> FALSE, failed |-> tg.failed, muts |-> {},
          out |-> "raised", calls |-> TRUE, log |-> <<>>]
    ELSE IF ~NeedUpdate(get_file_hash(c),
                        IF cached_info.kind = "none" THEN 0 ELSE cached_info.hash,
                        tg.doc_id, cached_info.sync_success)
    THEN [raise |-> "", objs |-> o,
          entry |-> CacheEntry(get_file_hash(c), tg.doc_id, TRUE),
          act |-> "skip", sent |-> FALSE, failed |-> tg.failed, muts |-> {},
          out |-> "skip", calls |-> TRUE, log |-> <<>>]
    ELSE Attempted(get_file_hash(c), tg,
                   IF tg.doc_id # 0
                   THEN UpdateDocument(o, tg.doc_id, preprocess_markdown_for_images(c),
                                       F, exists)
                   ELSE CreateDocument(o, NameWithoutExt(f), quip_folder_id,
                                       preprocess_markdown_for_images(c), F, exists))

\* sync_file(client, file_path, quip_folder_id, cache) for a file of content c.
\* rd: whether the file can be hashed and read.  raise: the exception that
\* leaves sync_file, "" if it returns.  calls: a remote call was issued.
sync_file(o, ca, f, c, quip_folder_id, F, rd, exists) ==
    IF rd # "ok"
    THEN [raise |-> "", objs |-> o, entry |-> UnreadableEntry(ca[f]),
          act |-> "unread", sent |-> FALSE, failed |-> FALSE, muts |-> {},
          out |-> "unread", calls |-> FALSE, log |-> <<>>]
    ELSE Resolved(o, ca[f], f, c, quip_folder_id, F, exists,
                  ResolveTarget(o, IF ca[f].kind = "dict" THEN ca[f].doc_id ELSE 0,
                                NameWithoutExt(f), quip_folder_id, F))


\* -------------------------------------------------------- clear_quip_folder
\* clear_quip_folder(client, folder_id): the children of the listing are
\* handled in order; the first call that raises ends the loop and the
\* function returns False.  The result of the recursive call on a subfolder
\* is dropped (line 454), so a failure below does not stop the loop above.
RECURSIVE clear_quip_folder(_, _, _)
RECURSIVE ClearChildren(_, _, _)
ClearChildren(o, kids, F) ==
    IF kids = <<>> THEN [objs |-> o, ok |-> TRUE, muts |-> {}, below |-> FALSE]
    ELSE LET k == Head(kids) IN
         IF o[k].kind = "thread"
         THEN IF <<"get", k>> \in F
              THEN [objs |-> o, ok |-> FALSE, muts |-> {}, below |-> FALSE]
              ELSE IF <<"del", k>> \in F
              THEN [objs |-> o, ok |-> FALSE, muts |-> {"delete_thread"}, below |-> FALSE]
              ELSE LET rest == ClearChildren([o EXCEPT ![k].alive = FALSE], Tail(kids), F)
                   IN [rest EXCEPT !.muts = @ \cup {"delete_thread"}]
         ELSE IF <<"getf", k>> \in F
              THEN [objs |-> o, ok |-> FALSE, muts |-> {}, below |-> FALSE]
              ELSE LET sub == clear_quip_folder(o, k, F)
                       rest == ClearChildren(sub.objs, Tail(kids), F)
                   IN [rest EXCEPT !.muts = @ \cup sub.muts,
                                   !.below = @ \/ sub.below \/ ~sub.ok]

clear_quip_folder(o, folder_id, F) ==
    IF <<"list", folder_id>> \in F
    THEN [objs |-> o, ok |-> FALSE, muts |-> {}, below |-> FALSE]
    ELSE ClearChildren(o, Children(o, folder_id), F)

\* A variant that drops the cache entry although delete_thread raised.
delete_quip_document_Forget(o, ca, f, ok) ==
    LET cached_info == ca[f]
        doc_id == IF cached_info.kind = "dict" THEN cached_info.doc_id ELSE 0
    IN IF cached_info.kind = "str" \/ doc_id = 0
       THEN [objs |-> o, cache |-> ca, called |-> FALSE, ok |-> FALSE]
       ELSE [objs |-> IF ok THEN [o EXCEPT ![doc_id].alive = FALSE] ELSE o,
             cache |-> [ca EXCEPT ![f] = NoEntry], called |-> TRUE, ok |-> ok]

\* ------------------------------------------------------ delete_quip_document
\* delete_quip_document(client, file_path, cache); ok: delete_thread returns.
delete_quip_document(o, ca, f, ok) ==
    LET cached_info == ca[f]
        doc_id == IF cached_info.kind = "dict" THEN cached_info.doc_id ELSE 0
    IN IF cached_info.kind = "str" \/ doc_id = 0
       THEN [objs |-> o, cache |-> ca, called |-> FALSE, ok |-> FALSE]
       ELSE IF ok
       THEN [objs |-> [o EXCEPT ![doc_id].alive = FALSE],
             cache |-> [ca EXCEPT ![f] = NoEntry], called |-> TRUE, ok |-> TRUE]
       ELSE [objs |-> o, cache |-> ca, called |-> TRUE, ok |-> FALSE]

\* A variant that resets the cache whatever clear_quip_folder returned.
CacheAfterClear_Always(ok, ca) == EmptyCache

\* lines 467-472: the cache after clear_quip_folder returned ok
CacheAfterClear(ok, ca) == IF ok THEN EmptyCache ELSE ca

\* A variant of detect_deleted_files that returns every key of the cache.
detect_deleted_files_All(loc, ca) ==
    SelectSeq(FileOrder, LAMBDA f : ca[f].kind # "none")

\* detect_deleted_files(local_path, cache)
detect_deleted_files(loc, ca) ==
    SelectSeq(FileOrder, LAMBDA f : ca[f].kind # "none" /\ loc[f] = 0)

\* lines 480-497: the directories that hold a markdown file, sorted
DirsToSync(loc) ==
    SelectSeq(SortedDirs, LAMBDA d : \E f \in Files : loc[f] # 0 /\ DirOf(f) = d)

\* files_by_dir[dir_path]
FilesIn(loc, d) ==
    SelectSeq(FileOrder, LAMBDA f : loc[f] # 0 /\ DirOf(f) = d)

DirIndex(d) == CHOOSE i \in 1..Len(SortedDirs) : SortedDirs[i] = d


VARIABLES
    local,      \* file -> 0 (no such file) or its content
    objs,       \* the remote store: sequence of folders and documents, id = index
    disk,       \* .quip_sync_cache.json
    cache,      \* the cache of the running sync_directory
    pc,         \* position of sync_directory
    clean,      \* clean_sync argument of the current run
    delq,       \* deleted_files still to handle
    dirq,       \* directories still to process
    fileq,      \* files of the current directory still to sync
    cur,        \* current_quip_folder
    runs,       \* runs started
    \* history of the current run
    loaded,     \* the cache as load_cache returned it
    cleared,    \* what clear_quip_folder returned
    failed,     \* a remote call raised in this run
    why,        \* the exception that ended the run, if one did
    muts,       \* kinds of remote mutation calls issued in this run
    delcalls,   \* file -> delete_thread calls issued for its cache entry
    delok,      \* files whose delete_thread call returned
    act,        \* file -> what sync_file did for it
    sent,       \* files for which the content call (prepend or new_document) was issued
    info,       \* file -> how its sync_file call went (out), whether it issued
                \*         a remote call (calls), what its media pass did (log)
    resolved,   \* directory index -> folder create_folder_structure returned
    \* history across runs
    prevResolved, \* the same, for the previous run
    stable,     \* the previous run was non-clean, complete and failure-free,
                \* and nothing changed since
    idem,       \* stable, as of the start of the current non-clean run
    drift,      \* a document was deleted out of band
    everClean,  \* some run so far was a clean run
    env,        \* changes made by the environment since the last run
    \* retry_api_call (SpecRetry)
    rpc, max_retries, rate_limit, retries, invoked, sleeps, outs, result,
    \* one function applied to drawn arguments (SpecMedia, SpecResolve)
    fpc,        \* "idle", "in": arguments drawn, "out": the function returned
    fin,        \* the arguments
    fout        \* what the function returned

runVars == <<pc, clean, delq, dirq, fileq, cur, runs>>
histVars == <<loaded, cleared, failed, why, muts, delcalls, delok, act, sent, info,
              resolved, prevResolved, stable, idem, drift, everClean, env>>
retryVars == <<rpc, max_retries, rate_limit, retries, invoked, sleeps, outs, result>>
pureVars == <<fpc, fin, fout>>
vars == <<local, objs, disk, cache, runVars, histVars, retryVars, pureVars>>

NoInfo == [out |-> "none", calls |-> FALSE, log |-> <<>>]

\* ------------------------------------------------------------ retry idle
PureIdle == fpc = "idle" /\ fin = <<>> /\ fout = <<>>

RetryIdle ==
    /\ rpc = "idle" /\ max_retries = 0 /\ rate_limit = 0 /\ retries = 0
    /\ invoked = 0 /\ sleeps = <<>> /\ outs = <<>> /\ result = "none"

\* ----------------------------------------------------------------- Init
NoHistory ==
    /\ loaded = EmptyCache /\ cleared = FALSE /\ failed = FALSE /\ why = ""
    /\ muts = {} /\ delcalls = [f \in Files |-> 0] /\ delok = {}
    /\ act = [f \in Files |-> "none"] /\ sent = {}
    /\ info = [f \in Files |-> NoInfo]
    /\ resolved = [i \in 1..Len(SortedDirs) |-> -1]

\* Before the first run: any local tree, an empty remote root folder, and a
\* cache file that is absent or was left by the older version of the tool
\* (bare fingerprint strings).
Init ==
    /\ local \in [Files -> 0..MaxContent]
    /\ objs = <<>>
    /\ disk \in [Files -> {NoEntry, StrEntry(get_file_hash(1))}]
    /\ cache = EmptyCache
    /\ pc = "idle" /\ clean = FALSE /\ delq = <<>> /\ dirq = <<>> /\ fileq = <<>>
    /\ cur = 0 /\ runs = 0
    /\ NoHistory
    /\ prevResolved = [i \in 1..Len(SortedDirs) |-> -1]
    /\ stable = FALSE /\ idem = FALSE /\ drift = FALSE /\ everClean = FALSE
    /\ env = 0
    /\ RetryIdle
    /\ PureIdle

Rest == {"idle", "done", "aborted"}

\* --------------------------------------------------------- the environment
\* Between runs a file is written, created or removed.
EditFile(f, c) ==
    /\ pc \in Rest /\ runs < MaxRuns
    /\ c # local[f] /\ env < MaxEnv /\ env' = env + 1
    /\ local' = [local EXCEPT ![f] = c]
    /\ stable' = FALSE
    /\ UNCHANGED <<objs, disk, cache, runVars, loaded, cleared, failed, why, muts,
                   delcalls, delok, act, sent, info, resolved, prevResolved,
                   idem, drift, everClean, retryVars, pureVars>>

\* Between runs a document is deleted in Quip itself.
RemoteDelete(t) ==
    /\ pc \in Rest /\ runs < MaxRuns
    /\ t \in 1..Len(objs) /\ objs[t].kind = "thread" /\ objs[t].alive
    /\ env < MaxEnv /\ env' = env + 1
    /\ objs' = [objs EXCEPT ![t].alive = FALSE]
    /\ stable' = FALSE /\ drift' = TRUE
    /\ UNCHANGED <<local, disk, cache, runVars, loaded, cleared, failed, why, muts,
                   delcalls, delok, act, sent, info, resolved, prevResolved,
                   idem, everClean, retryVars, pureVars>>

\* ------------------------------------------------------------ sync_directory
\* load_cache(cache_file): the file's content
load_cache(dk) == dk

\* A variant of save_cache that leaves the file as it is.
save_cache_Nothing(dk, ca) == dk

\* save_cache(cache_file, cache): the file's content after the dump
save_cache(dk, ca) == ca

\* A variant of the order of the phases that reconciles deletions after
\* the sync pass.
NextPhase_SyncFirst(p, clean_sync) ==
    CASE p = "start" -> IF clean_sync THEN "clear" ELSE "dir"
      [] p = "clear" -> "dir"
      [] p = "dir" -> IF clean_sync THEN "save" ELSE "delete"
      [] p = "delete" -> "save"

\* The order of the phases of sync_directory: the clear (lines 465-472) or
\* the deletions (475-478), then the loop over the directories (497-509),
\* then the save (511).
NextPhase(p, clean_sync) ==
    CASE p = "start" -> IF clean_sync THEN "clear" ELSE "delete"
      [] p = "clear" -> "dir"
      [] p = "delete" -> "dir"
      [] p = "dir" -> "save"

\* line 462 and the computation of the work lists (the local tree does not
\* change during a run).
StartRun(clean_sync) ==
    /\ pc \in Rest /\ runs < MaxRuns
    /\ runs' = runs + 1
    /\ clean' = clean_sync
    /\ cache' = load_cache(disk) /\ loaded' = load_cache(disk)
    /\ pc' = NextPhase("start", clean_sync)
    /\ delq' = IF clean_sync THEN <<>> ELSE detect_deleted_files(local, disk)
    /\ dirq' = DirsToSync(local)
    /\ fileq' = <<>> /\ cur' = 0
    /\ cleared' = FALSE /\ failed' = FALSE /\ why' = "" /\ muts' = {}
    /\ delcalls' = [f \in Files |-> 0] /\ delok' = {}
    /\ act' = [f \in Files |-> "none"] /\ sent' = {}
    /\ info' = [f \in Files |-> NoInfo]
    /\ resolved' = [i \in 1..Len(SortedDirs) |-> -1]
    /\ prevResolved' = resolved
    /\ idem' = (stable /\ ~clean_sync) /\ stable' = FALSE /\ env' = 0
    /\ /\ everClean' = (everClean \/ clean_sync)
    /\ UNCHANGED <<local, objs, disk, drift, retryVars, pureVars>>

\* lines 465-472
ClearStep ==
    /\ pc = "clear"
    /\ \E F \in Small(ClearSites(objs)) :
         LET r == clear_quip_folder(objs, 0, F) IN
         /\ objs' = r.objs
         /\ cleared' = r.ok
         /\ cache' = CacheAfterClear(r.ok, cache)
         /\ failed' = (failed \/ ~r.ok \/ r.below)
         /\ muts' = muts \cup r.muts
    /\ pc' = NextPhase("clear", clean)
    /\ UNCHANGED <<local, disk, clean, delq, dirq, fileq, cur, runs, loaded, why,
                   delcalls, delok, act, sent, info, resolved, prevResolved,
                   stable, idem, drift, everClean, env, retryVars, pureVars>>

\* lines 477-478, one deleted file
DeleteStep ==
    /\ pc = "delete" /\ delq # <<>>
    /\ \E ok \in BOOLEAN :
         LET f == Head(delq)
             r == delete_quip_document(objs, cache, f, ok) IN
         /\ objs' = r.objs /\ cache' = r.cache
         /\ delcalls' = [delcalls EXCEPT ![f] = @ + (IF r.called THEN 1 ELSE 0)]
         /\ delok' = IF r.ok THEN delok \cup {f} ELSE delok
         /\ failed' = (failed \/ (r.called /\ ~r.ok))
         /\ muts' = IF r.called THEN muts \cup {"delete_thread"} ELSE muts
    /\ delq' = Tail(delq)
    /\ UNCHANGED <<local, disk, pc, clean, dirq, fileq, cur, runs, loaded, cleared,
                   why, act, sent, info, resolved, prevResolved, stable, idem,
                   drift, everClean, env, retryVars, pureVars>>

\* lines 480-494: the deletions are done, the files are collected
CollectStep ==
    /\ pc = "delete" /\ delq = <<>>
    /\ pc' = NextPhase("delete", clean)
    /\ UNCHANGED <<local, objs, disk, cache, clean, delq, dirq, fileq, cur, runs,
                   histVars, retryVars, pureVars>>

\* lines 497-504, one directory
ResolveDir ==
    /\ pc = "dir" /\ dirq # <<>>
    /\ \E F \in Small(FolderSites(objs)) :
         LET d == Head(dirq)
             r == IF d = <<>>
                  THEN [objs |-> objs, id |-> 0, raised |-> FALSE, muts |-> {}]
                  ELSE create_folder_structure(objs, d, 0, F) IN
         /\ Len(r.objs) <= MaxObjs
         /\ objs' = r.objs
         /\ muts' = muts \cup r.muts
         /\ failed' = (failed \/ r.raised)
         /\ IF r.raised
            THEN /\ pc' = "aborted" /\ why' = "HTTPError"
                 /\ UNCHANGED <<dirq, fileq, cur, resolved>>
            ELSE /\ pc' = "file" /\ why' = why
                 /\ dirq' = Tail(dirq) /\ fileq' = FilesIn(local, d)
                 /\ cur' = r.id
                 /\ resolved' = [resolved EXCEPT ![DirIndex(d)] = r.id]
    /\ UNCHANGED <<local, disk, cache, clean, delq, runs, loaded, cleared, delcalls,
                   delok, act, sent, info, prevResolved, stable, idem, drift, everClean, env,
                   retryVars, pureVars>>

\* lines 507-509, one file
SyncStep ==
    /\ pc = "file" /\ fileq # <<>>
    /\ \E F \in Small(FileSites(objs, cur)), rd \in {"ok", "nohash", "noread"},
          exists \in SUBSET {1} :
       \E f \in {Head(fileq)} :
       \E r \in {sync_file(objs, cache, f, local[f], cur, F, rd, exists)} :
         /\ Len(r.objs) <= MaxObjs
         /\ objs' = r.objs
         /\ cache' = [cache EXCEPT ![f] = r.entry]
         /\ act' = [act EXCEPT ![f] = r.act]
         /\ sent' = IF r.sent THEN sent \cup {f} ELSE sent
         /\ info' = [info EXCEPT ![f] = [out |-> r.out, calls |-> r.calls, log |-> r.log]]
         /\ muts' = muts \cup r.muts
         /\ failed' = (failed \/ r.failed)
         /\ why' = r.raise
         /\ IF r.raise # ""
            THEN pc' = "aborted" /\ fileq' = fileq
            ELSE /\ fileq' = Tail(fileq)
                 /\ pc' = IF Tail(fileq) = <<>> THEN "dir" ELSE "file"
    /\ UNCHANGED <<local, disk, clean, delq, dirq, cur, runs, loaded, cleared,
                   delcalls, delok, resolved, prevResolved, stable, idem, drift, everClean, env,
                   retryVars, pureVars>>

\* line 497: every directory is done
LoopDone ==
    /\ pc = "dir" /\ dirq = <<>>
    /\ pc' = NextPhase("dir", clean)
    /\ UNCHANGED <<local, objs, disk, cache, clean, delq, dirq, fileq, cur, runs,
                   histVars, retryVars, pureVars>>

\* line 511
SaveStep ==
    /\ pc = "save"
    /\ disk' = save_cache(disk, cache)
    /\ pc' = "done"
    /\ stable' = (~clean /\ ~failed /\ \A f \in Files : act[f] # "unread")
    /\ UNCHANGED <<local, objs, cache, clean, delq, dirq, fileq, cur, runs, loaded,
                   cleared, failed, why, muts, delcalls, delok, act, sent, info,
                   resolved, prevResolved, idem, drift, everClean, env, retryVars, pureVars>>

Next ==
    \/ \E f \in Files, c \in 0..MaxContent : EditFile(f, c)
    \/ \E t \in 1..MaxObjs : RemoteDelete(t)
    \/ \E b \in BOOLEAN : StartRun(b)
    \/ ClearStep
    \/ DeleteStep
    \/ CollectStep
    \/ ResolveDir
    \/ SyncStep
    \/ LoopDone
    \/ SaveStep

Spec == Init /\ [][Next]_vars

\* ------------------------------------------------------------ retry_api_call
\* retry_api_call(func, max_retries, rate_limit) with one loop iteration per
\* step.  out is what func does when invoked: it returns ("ok"), raises
\* HTTPError 504 ("504"), another HTTPError ("http") or another exception
\* ("exc").  sleeps lists the time.sleep calls: the back-off waits in
\* seconds, the rate-limit delay in half seconds.
RECURSIVE Pow2(_)
Pow2(n) == IF n = 0 THEN 1 ELSE 2 * Pow2(n - 1)

\* A variant with a linear back-off.
WaitTime_Linear(n) == 2 * n

\* line 62
WaitTime(n) == Pow2(n)

\* line 61: the failures that are retried
Retryable(out) == out = "504"

InitRetry ==
    /\ local = [f \in Files |-> 0] /\ objs = <<>>
    /\ disk = EmptyCache /\ cache = EmptyCache
    /\ pc = "idle" /\ clean = FALSE /\ delq = <<>> /\ dirq = <<>> /\ fileq = <<>>
    /\ cur = 0 /\ runs = 0
    /\ NoHistory
    /\ prevResolved = [i \in 1..Len(SortedDirs) |-> -1]
    /\ stable = FALSE /\ idem = FALSE /\ drift = FALSE /\ everClean = FALSE
    /\ env = 0
    /\ PureIdle
    /\ rpc = "call"
    /\ max_retries \in 1..MaxRetriesArg
    /\ rate_limit \in 0..MaxRate
    /\ retries = 0 /\ invoked = 0 /\ sleeps = <<>> /\ outs = <<>> /\ result = "none"

Invoke(out) ==
    /\ rpc = "call" /\ retries < max_retries
    /\ invoked' = invoked + 1
    /\ outs' = Append(outs, out)
    /\ IF out = "ok"
       THEN /\ sleeps' = Append(sleeps, [kind |-> "rate", t |-> rate_limit])
            /\ rpc' = "returned" /\ result' = "value"
            /\ retries' = retries
       ELSE IF Retryable(out)
       THEN /\ retries' = retries + 1
            /\ IF retries + 1 < max_retries
               THEN /\ sleeps' = Append(sleeps, [kind |-> "backoff", t |-> WaitTime(retries)])
                    /\ rpc' = "call" /\ result' = result
               ELSE /\ sleeps' = sleeps
                    /\ rpc' = "raised" /\ result' = out
       ELSE /\ retries' = retries /\ sleeps' = sleeps
            /\ rpc' = "raised" /\ result' = out
    /\ UNCHANGED <<local, objs, disk, cache, runVars, histVars, max_retries, rate_limit,
                   pureVars>>

NextRetry == \E out \in {"ok", "504", "http", "exc"} : Invoke(out)

SpecRetry == InitRetry /\ [][NextRetry]_vars

\* ------------------------------------------------------------- SpecMedia
\* sync_directory at rest, as before its first run on an empty tree.
SyncIdle ==
    /\ local = [f \in Files |-> 0] /\ objs = <<>>
    /\ disk = EmptyCache /\ cache = EmptyCache
    /\ pc = "idle" /\ clean = FALSE /\ delq = <<>> /\ dirq = <<>> /\ fileq = <<>>
    /\ cur = 0 /\ runs = 0
    /\ NoHistory
    /\ prevResolved = [i \in 1..Len(SortedDirs) |-> -1]
    /\ stable = FALSE /\ idem = FALSE /\ drift = FALSE /\ everClean = FALSE
    /\ env = 0

\* process_images_after_upload alone, on any small document: chunks with or
\* without a placeholder, before any image was added.
MediaChunks == {[text |-> 1, h1 |-> FALSE, ph |-> r, blob |-> FALSE] : r \in 0..MaxRefs}
MediaBodies == UNION {[1..n -> MediaChunks] : n \in 0..MaxChunks}
MediaSites ==
    {<<"media", 0>>} \cup {<<s, k>> : s \in {"blob", "img"}, k \in 1..MaxChunks}

InitMedia ==
    /\ SyncIdle /\ RetryIdle
    /\ fpc = "in"
    /\ fin \in [body : MediaBodies, d : {0, 1}, exists : SUBSET (1..MaxRefs),
                 F : Small(MediaSites)]
    /\ fout = <<>>

MediaPass ==
    /\ fpc = "in"
    /\ fout' = process_images_after_upload(<<Thread("t", 0, fin.body)>>, fin.d,
                                            fin.F, fin.exists)
    /\ fpc' = "out"
    /\ UNCHANGED <<local, objs, disk, cache, runVars, histVars, retryVars, fin>>

NextMedia == MediaPass

SpecMedia == InitMedia /\ [][NextMedia]_vars

\* ----------------------------------------------------------- SpecResolve
\* The target resolution of sync_file alone, for a file titled "x" and the
\* root folder holding any children: subfolders, live documents and
\* documents that were deleted, titled "x" or "y"; the cache names none of
\* them or one of the documents.
ResolveKids ==
    {Folder(t, 0) : t \in {"x", "y"}}
        \cup {[Thread(t, 0, <<>>) EXCEPT !.alive = a] : t \in {"x", "y"}, a \in BOOLEAN}
ResolveStores == UNION {[1..n -> ResolveKids] : n \in 0..MaxKids}
ResolveSites(o) ==
    {<<"verify", 0>>, <<"list", 0>>} \cup {<<"title", k>> : k \in 1..Len(o)}

InitResolve ==
    /\ SyncIdle /\ RetryIdle
    /\ fpc = "in"
    /\ \E o \in ResolveStores :
         \E c \in {0} \cup {k \in 1..Len(o) : o[k].kind = "thread"} :
           \E F \in Small(ResolveSites(o)) :
             fin = [o |-> o, cached_doc_id |-> c, title |-> "x", F |-> F]
    /\ fout = <<>>

Resolve ==
    /\ fpc = "in"
    /\ fout' = ResolveTarget(fin.o, fin.cached_doc_id, fin.title, 0, fin.F)
    /\ fpc' = "out"
    /\ UNCHANGED <<local, objs, disk, cache, runVars, histVars, retryVars, fin>>

NextResolve == Resolve

SpecResolve == InitResolve /\ [][NextResolve]_vars

\* ==================================================================== claims
\* The cache entry of f when sync_file was called on it in this run: nothing
\* else writes the entry of an existing file before sync_file does.
Before(f) == IF clean /\ cleared THEN NoEntry ELSE loaded[f]

Returned(f) == act[f] \in {"skip", "update", "create"}

\* The documents of folder g titled as f.
Titled(o, g, f) ==
    {t \in 1..Len(o) : IsThread(o, t) /\ o[t].parent = g /\ o[t].title = NameWithoutExt(f)}

\* C1: sync_file called on a readable file whose cache entry is a bare
\* fingerprint string returns normally and leaves a structured entry, when no
\* remote call fails.
C1_LegacyAccepted ==
    \A f \in Files :
        (act[f] \notin {"none", "unread"} /\ Before(f).kind = "str" /\ ~failed)
            => (why = "" /\ cache[f].kind = "dict")

\* C2: a remote call that raises inside sync_file or create_folder_structure
\* never ends the run.
C2_RemoteFailureNeverAborts == pc = "aborted" => why # "HTTPError"

\* C3 as claimed: in a clean run the cache is empty once clear_quip_folder is
\* done and before any file is synced, whatever clear_quip_folder returned.
C3_ResetRegardless ==
    (clean /\ pc # "clear" /\ \A f \in Files : act[f] = "none")
        => cache = EmptyCache

\* C3 as amended: in a clean run, before any file is synced, the cache is
\* empty if clear_quip_folder returned True and is the loaded cache if it
\* returned False.
C3_ResetIffCleared ==
    (clean /\ pc # "clear" /\ \A f \in Files : act[f] = "none")
        => cache = (IF cleared THEN EmptyCache ELSE loaded)

C3_Witness ==
    /\ clean /\ pc = "file" /\ ~cleared
    /\ cache = loaded /\ cache # EmptyCache
    /\ \A f \in Files : act[f] = "none"

\* C4: a non-clean run that follows a complete, failure-free non-clean run,
\* with no local or remote change in between, issues no remote mutation call
\* as long as none of its own calls fails, and every file it handles is
\* skipped as unchanged.
C4_Idempotent ==
    (idem /\ ~failed)
        => /\ muts = {}
           /\ \A f \in Files : act[f] \in {"none", "skip", "unread"}

C4_Witness ==
    /\ idem /\ ~failed /\ pc = "done" /\ muts = {}
    /\ \A f \in Files : local[f] # 0 /\ act[f] = "skip"

C6_DeletionReconciliation ==
    (~clean /\ pc \in {"dir", "file", "save", "done", "aborted"} /\ env = 0)
        => \A f \in Files :
               (loaded[f].kind # "none" /\ local[f] = 0)
                   => IF loaded[f].kind = "dict" /\ loaded[f].doc_id # 0
                      THEN /\ delcalls[f] = 1
                           /\ (cache[f] = NoEntry) <=> (f \in delok)
                           /\ f \notin delok => cache[f] = loaded[f]
                           /\ f \in delok => ~objs[loaded[f].doc_id].alive
                      ELSE /\ delcalls[f] = 0
                           /\ cache[f] = loaded[f]

C6_Witness ==
    /\ ~clean /\ pc = "done"
    /\ \E f \in Files :
           /\ local[f] = 0 /\ loaded[f].kind = "dict" /\ loaded[f].doc_id # 0
           /\ delcalls[f] = 1 /\ f \notin delok /\ disk[f] = loaded[f]

\* C7: the operation is invoked at most max_retries times; every invocation
\* but the last raised a 504 and was followed by a wait of 2^attempt seconds;
\* a 504 propagates only from invocation number max_retries, without a wait;
\* any other failure propagates from the invocation that raised it; a
\* success is followed by the rate-limit delay and returns the result.
Backoffs(n) == [i \in 1..n |-> [kind |-> "backoff", t |-> Pow2(i - 1)]]

C7_Retry ==
    /\ invoked = Len(outs) /\ invoked <= max_retries
    /\ \A i \in 1..(Len(outs) - 1) : outs[i] = "504"
    /\ rpc = "call" =>
           /\ invoked < max_retries /\ sleeps = Backoffs(invoked)
           /\ \A i \in 1..Len(outs) : outs[i] = "504"
    /\ rpc = "raised" =>
           /\ result = outs[Len(outs)] /\ result # "ok"
           /\ sleeps = Backoffs(invoked - 1)
           /\ result = "504" => invoked = max_retries
    /\ rpc = "returned" =>
           /\ outs[Len(outs)] = "ok" /\ result = "value"
           /\ sleeps = Backoffs(invoked - 1) \o <<[kind |-> "rate", t |-> rate_limit]>>

C7_Witness ==
    /\ rpc = "raised" /\ result = "504" /\ max_retries = 3 /\ invoked = 3
    /\ sleeps = <<[kind |-> "backoff", t |-> 1], [kind |-> "backoff", t |-> 2]>>

\* C8: after a run with no failed call and no out-of-band deletion ever,
\* every entry with sync_success = true and the file's current fingerprint
\* names a live document whose body is exactly the file's processed content.
C8_CacheInvariant ==
    (pc = "done" /\ ~drift /\ ~failed /\ env = 0)
        => \A f \in Files :
               (/\ local[f] # 0 /\ cache[f].kind = "dict" /\ cache[f].sync_success
                /\ cache[f].hash = get_file_hash(local[f]))
                   => /\ cache[f].doc_id # 0
                      /\ objs[cache[f].doc_id].alive
                      /\ Len(objs[cache[f].doc_id].body) = 1
                      /\ objs[cache[f].doc_id].body[1].text = local[f]

\* C9: a directory resolved in two successive runs resolves to the same
\* folder, and no folder ever holds two subfolders of the same title.
C9_FolderDeterminism ==
    /\ \A i \in 1..Len(SortedDirs) :
           (resolved[i] # -1 /\ prevResolved[i] # -1) => resolved[i] = prevResolved[i]
    /\ \A g, h \in 1..Len(objs) :
           (/\ objs[g].kind = "folder" /\ objs[h].kind = "folder"
            /\ objs[g].parent = objs[h].parent /\ objs[g].title = objs[h].title)
               => g = h

C9_Witness ==
    /\ runs = 2 /\ ~failed
    /\ resolved[2] > 0 /\ resolved[2] = prevResolved[2]
    /\ objs[resolved[2]].title = "b" /\ objs[objs[resolved[2]].parent].title = "a"
    /\ "new_folder" \notin muts

\* C10: sync_file called on a file with an unchanged fingerprint and a
\* successful entry whose document is gone, in a folder with no document of
\* the file's title: if the file is readable and the folder listing does not
\* raise, new_document is issued, and if it returns, the new document lies in
\* the resolved folder under the file's title and the cache records its id.
C10_OutOfBandDeletion ==
    [][\A f \in Files :
          (/\ pc = "file" /\ fileq # <<>> /\ f = Head(fileq)
           /\ cache[f].kind = "dict" /\ cache[f].sync_success
           /\ cache[f].hash = get_file_hash(local[f])
           /\ cache[f].doc_id # 0 /\ ~objs[cache[f].doc_id].alive
           /\ Titled(objs, cur, f) = {})
              => /\ act'[f] \in {"unread", "raised", "create"}
                 /\ act'[f] = "raised" => why' = "HTTPError"
                 /\ act'[f] = "create" =>
                        /\ f \in sent' /\ "new_document" \in muts'
                        /\ cache'[f].kind = "dict"
                        /\ cache'[f].doc_id = 0 => (failed' /\ objs' = objs)
                        /\ cache'[f].doc_id # 0 =>
                               /\ cache'[f].doc_id = Len(objs) + 1
                               /\ Titled(objs', cur, f) = {cache'[f].doc_id}]_vars

C10_Witness ==
    \E f \in Files :
        /\ ~clean /\ act[f] = "create" /\ drift
        /\ loaded[f].kind = "dict" /\ loaded[f].sync_success
        /\ loaded[f].hash = get_file_hash(local[f])
        /\ loaded[f].doc_id # 0 /\ ~objs[loaded[f].doc_id].alive
        /\ cache[f].doc_id # 0 /\ cache[f].doc_id # loaded[f].doc_id
        /\ objs[cache[f].doc_id].alive

\* C11: an image reference of a file's content reaches the document as the
\* placeholder of its path; once the file's sync_file call and its media pass
\* went through with every placeholder's image added, no placeholder is left
\* in the document and the new content carries the image.
C11_PlaceholderRoundTrip ==
    \A f \in Files :
        (/\ env = 0 /\ info[f].out = "ok" /\ HasImg(local[f])
         /\ info[f].log # <<>>
         /\ \A k \in 1..Len(info[f].log) : info[f].log[k].out = "added")
            => LET body == objs[cache[f].doc_id].body
               IN /\ body[1].text = local[f] /\ body[1].blob
                  /\ \A i \in 1..Len(body) : body[i].ph = 0

\* The k-th smallest element of a set of indices.
Nth(P, k) == CHOOSE i \in P : Cardinality({j \in P : j < i}) = k - 1

\* C16: the media pass returns True exactly when it was given a document
\* and the fetch of its markup did not raise; it then reached every
\* placeholder of the markup, in document order, whatever happened at the
\* placeholders before: a missing file and a failed upload leave the
\* placeholder's chunk as it was, and so does a failed edit.
C16_MediaPassResult ==
    fpc = "out" =>
        /\ fout.ok <=> (fin.d # 0 /\ <<"media", 0>> \notin fin.F)
        /\ fout.ok =>
             LET P == {i \in 1..Len(fin.body) : fin.body[i].ph # 0}
                 log == fout.log
             IN /\ Len(log) = Cardinality(P)
                /\ \A k \in 1..Len(log) :
                     /\ log[k].ref = fin.body[Nth(P, k)].ph
                     /\ log[k].out = (IF log[k].ref \notin fin.exists THEN "missing"
                                      ELSE IF <<"blob", k>> \in fin.F THEN "upload_failed"
                                      ELSE IF <<"img", k>> \in fin.F THEN "edit_failed"
                                      ELSE "added")

C16_Witness ==
    /\ fpc = "out" /\ fout.ok /\ Len(fout.log) = 3
    /\ fout.log[1].out = "edit_failed"
    /\ fout.log[2].out = "missing"
    /\ fout.log[3].out = "added"

\* C12: after an update of an existing document in which no call failed,
\* the document's body is exactly the file's new content, whatever the body
\* was before.
C12_ContentReplaced ==
    \A f \in Files :
        (env = 0 /\ ~failed /\ act[f] = "update" /\ info[f].out = "ok")
            => LET body == objs[cache[f].doc_id].body
               IN Len(body) = 1 /\ body[1].text = local[f]

\* C13: sync_file called on a readable file skips (no edit_document, no
\* new_document) if and only if the cached fingerprint is the file's, a
\* document was resolved and the cached sync_success is true; in every other
\* case it goes into the update or the create.
C13_UpdateDecision ==
    \A f \in Files :
        (env = 0 /\ act[f] \notin {"none", "unread"})
            => LET e == Before(f)
                   doc_id == IF act[f] = "create" THEN 0 ELSE cache[f].doc_id
               IN /\ act[f] \in {"skip", "update", "create"}
                  /\ act[f] = "skip" <=>
                         (/\ e.kind # "none" /\ e.hash = get_file_hash(local[f])
                          /\ doc_id # 0 /\ e.sync_success)
                  /\ act[f] = "skip" => f \notin sent

C15_UnreadableFile ==
    [][\A f \in Files :
          (pc = "file" /\ fileq # <<>> /\ f = Head(fileq) /\ info'[f].out = "unread")
              => /\ ~info'[f].calls
                 /\ cache' = cache /\ objs' = objs
                 /\ muts' = muts /\ failed' = failed /\ sent' = sent
                 /\ why' = "" /\ pc' \in {"file", "dir"}
                 /\ fileq' = Tail(fileq)]_vars

C15_Witness ==
    /\ info["x.md"].out = "unread"
    /\ loaded["x.md"].kind = "dict" /\ cache["x.md"] = loaded["x.md"]
    /\ Returned("a/b/y.md")

\* C17: the document sync_file works on is the cached one when the cache
\* names one and its fetch returns a document; otherwise, the listing of the
\* folder having returned, it is the first document child of the listing
\* whose fetched title is the file's base name; otherwise there is none.
C17_TargetResolution ==
    fpc = "out" =>
        LET o == fin.o
            c == fin.cached_doc_id
            M == {k \in 1..Len(o) : /\ o[k].kind = "thread" /\ o[k].alive
                                    /\ o[k].title = fin.title
                                    /\ <<"title", k>> \notin fin.F}
        IN IF c # 0 /\ o[c].alive /\ <<"verify", 0>> \notin fin.F
           THEN fout.doc_id = c /\ ~fout.raised
           ELSE IF <<"list", 0>> \in fin.F THEN fout.raised
           ELSE /\ ~fout.raised
                /\ IF M = {} THEN fout.doc_id = 0
                   ELSE fout.doc_id \in M /\ \A k \in M : fout.doc_id <= k

C17_Witness ==
    /\ fpc = "out" /\ fin.cached_doc_id # 0 /\ ~fin.o[fin.cached_doc_id].alive
    /\ \E j, k \in 1..Len(fin.o) :
         /\ j < k /\ fout.doc_id = j
         /\ IsThread(fin.o, k) /\ fin.o[k].title = fin.title

\* C18: the cache file is written by the save at the end of the run and by
\* nothing else: from the load to the save it is what was loaded, also when
\* the run aborts; after the save it is the run's cache.
C18_SingleSave ==
    /\ [](pc \in {"clear", "delete", "dir", "file", "save", "aborted"} => disk = loaded)
    /\ [](pc = "done" => disk = cache)
    /\ [][disk' # disk => (pc = "save" /\ pc' = "done")]_vars

C18_Witness ==
    /\ pc = "aborted" /\ disk = loaded /\ cache # loaded
    /\ \E f \in Files : cache[f].kind = "dict" /\ cache[f].sync_success

\* C19: in a non-clean run a delete_thread call is issued only in the
\* deletion phase, before any new_folder, new_document, edit_document or
\* blob upload of the run, and the sync pass starts with no deletion left.
C19_PhaseOrdering ==
    /\ []((~clean /\ pc \in {"dir", "file", "save"}) => delq = <<>>)
    /\ [][(~clean' /\ \E f \in Files : delcalls'[f] > delcalls[f])
             => (pc = "delete" /\ muts \subseteq {"delete_thread"})]_vars

C19_Witness ==
    /\ ~clean /\ pc = "done"
    /\ \E f \in Files : delcalls[f] > 0 /\ f \in delok
    /\ muts \cap {"new_folder", "new_document", "edit_document"} # {}

\* C20: as long as every run is non-clean and no document is deleted out of
\* band, a document that sync_file creates for a file is the only document
\* of that title in its folder.
C20_NoDuplicateDocuments ==
    \A f \in Files :
        (/\ ~everClean /\ ~drift /\ env = 0
         /\ act[f] = "create" /\ cache[f].doc_id # 0)
            => Titled(objs, objs[cache[f].doc_id].parent, f) = {cache[f].doc_id}

\* The remote folder a directory resolves to when no call fails, -1 if one
\* of its segments has no folder yet.
RECURSIVE FolderAt(_, _, _)
FolderAt(o, folder_path, parent_id) ==
    IF folder_path = <<>> THEN parent_id
    ELSE LET scan == ScanFolders(o, Children(o, parent_id), Head(folder_path), {})
         IN IF scan.id = 0 THEN -1 ELSE FolderAt(o, Tail(folder_path), scan.id)

\* The documents that belong to a local file that exists: the one its cache
\* entry names and those of its title in the folder of its directory.
Protected(o, ca, loc) ==
    {t \in 1..Len(o) :
        \E g \in Files :
            /\ loc[g] # 0
            /\ \/ ca[g].kind = "dict" /\ ca[g].doc_id = t
               \/ t \in Titled(o, FolderAt(o, DirOf(g), 0), g)}

\* C21: in a non-clean run a delete_thread call is issued only for the
\* doc_id that the cache records under a key whose local file does not
\* exist, a document disappears only through such a call, and it is never
\* the cached document or a document of the title and folder of a local file
\* that exists.
C21_DeletionSafety ==
    [][(pc \notin Rest /\ ~clean)
          => /\ \A f \in Files :
                  delcalls'[f] > delcalls[f]
                      => /\ local[f] = 0
                         /\ cache[f].kind = "dict" /\ cache[f].doc_id # 0
             /\ \A t \in 1..Len(objs) :
                  (objs[t].alive /\ ~objs'[t].alive)
                      => /\ \E f \in Files :
                              delcalls'[f] > delcalls[f] /\ cache[f].doc_id = t
                         /\ t \notin Protected(objs, cache, local)]_vars

C21_Witness ==
    /\ ~clean /\ ~everClean /\ pc = "done"
    /\ \E f \in Files, g \in Files :
         /\ f \in delok /\ local[f] = 0 /\ ~objs[loaded[f].doc_id].alive
         /\ local[g] # 0 /\ cache[g].kind = "dict" /\ cache[g].doc_id # 0
         /\ objs[cache[g].doc_id].alive
         /\ cache[g].doc_id \in Protected(objs, cache, local)

\* C22: a cache entry that sync_file wrote with sync_success = true names a
\* document; an entry without a doc_id has sync_success = false.  The same
\* holds of the cache file.
C22_SuccessHasDocument ==
    \A f \in Files :
        /\ (cache[f].kind = "dict" /\ cache[f].sync_success) => cache[f].doc_id # 0
        /\ (disk[f].kind = "dict" /\ disk[f].sync_success) => disk[f].doc_id # 0

C22_Witness ==
    \E f \in Files, g \in Files :
        /\ act[f] = "create" /\ cache[f].kind = "dict"
        /\ cache[f].doc_id = 0 /\ ~cache[f].sync_success
        /\ act[g] = "skip" /\ cache[g].sync_success /\ cache[g].doc_id # 0

====
